---- MODULE Spec2Model ----
(***************************************************************************)
(* A model of the bhavcopy tools:                                          *)
(*   - SamcoBhavDownloader (samco_bhavcopy.py): generate_15day_chunks,     *)
(*     download_bhav_zip, extract_and_process_zip, download_all;           *)
(*   - find_ticker_changes_from_bhavcopies (ticker_changes_bhav_copy.py).  *)
(*                                                                         *)
(* Specifications:                                                         *)
(*   SpecPlan   generate_15day_chunks alone, over a wide set of ranges     *)
(*   Spec       download_all: plan, fetch with retries, extract, finalize  *)
(*   SpecTicker find_ticker_changes_from_bhavcopies                        *)
(*   SpecTwice  find_ticker_changes_from_bhavcopies called twice over the  *)
(*              same files                                                 *)
(***************************************************************************)
EXTENDS Integers, Sequences, FiniteSets, TLC

VARIABLES
    \* ---- download_all / generate_15day_chunks ----
    pc,               \* position of the downloader
    start, end,       \* the parsed start_date / end_date
    current,          \* generate_15day_chunks: loop variable
    chunks,           \* generate_15day_chunks: list of (start, end) tuples
    i,                \* download_all: 1-based index of the chunk in progress
    attempt,          \* download_bhav_zip: loop variable of range(max_retries)
    zip_path,         \* download_bhav_zip: returned path, or NoPath for None
    archive,          \* content of the file at zip_path, until it has been read
    written,          \* paths of the files created under zip_dir
    stats,            \* self.stats
    all_dataframes,   \* download_all: list of the frames of the good chunks
    output,           \* the consolidated files written by to_excel: <<>> or <<frame>>
    raised,           \* exception that escaped download_all, or None
    \* ---- observation of the run (not program state) ----
    requests,         \* requests.post calls of the download_bhav_zip call in progress
    retry_delays,     \* time.sleep(retry_delay) calls of the call in progress
    log,              \* what each attempt of the call in progress met
    pace_delays,      \* time.sleep(delay_between_requests) calls of the run
    fetched,          \* indexes of the chunks handed to download_bhav_zip, in order
    seen,             \* the rows of the good chunks, in the order they were read
    \* ---- find_ticker_changes_from_bhavcopies ----
    tpc,              \* position of the analysis
    disk,             \* the files under base_folder
    all_files,        \* the sorted list of paths
    file_no,          \* 1-based position in all_files of the file in progress
    current_date,     \* date parsed from the name of the file in progress
    rows_read,        \* rows of the file in progress that have been passed
    isin_tracker,     \* isin -> [symbols, last_seen_symbol, first_seen]
    changes_log,      \* list of change records
    processed_files,  \* counter of the files read to their end
    result,           \* the returned records (an empty DataFrame is <<>>)
    texc,             \* exception that escaped the function, or None
    contents,         \* file -> what is in it, where the files are given
    \* ---- the calls of the analysis ----
    run,              \* 0: one call, the files are read as they come;
                      \* 1, 2: the first and the second call over `contents`
    first,            \* how the first call ended: [tpc, result, texc]
    \* ---- observation of the analysis (not program state) ----
    last_row,         \* the row handled by the latest step, symbol stripped
    observed          \* isin -> symbol of the latest equity row carrying it

dvars == <<pc, start, end, current, chunks, i, attempt, zip_path, archive,
           written, stats, all_dataframes, output, raised,
           requests, retry_delays, log, pace_delays, fetched, seen>>

tvars == <<tpc, disk, all_files, file_no, current_date, rows_read, isin_tracker,
           changes_log, processed_files, result, texc, last_row, observed,
           contents, run, first>>

vars == <<dvars, tvars>>

None == "None"

\* no path (download_bhav_zip returned None)
NoPath == <<>>

\* the corrupt content: also what `archive` holds while there is no file
NoArchive == [valid |-> FALSE, entries |-> <<>>]

(***************************************************************************)
(* Calendar dates (datetime values at midnight): [y, m, d].                *)
(***************************************************************************)
Date(y, m, d) == [y |-> y, m |-> m, d |-> d]

IsLeap(y) == (y % 4 = 0) /\ ((y % 100 # 0) \/ (y % 400 = 0))

DaysInMonth(y, m) ==
    IF m = 2 THEN (IF IsLeap(y) THEN 29 ELSE 28)
    ELSE IF m \in {4, 6, 9, 11} THEN 30 ELSE 31

\* date + timedelta(days=1)
PlusOneDay(dt) ==
    IF dt.d < DaysInMonth(dt.y, dt.m) THEN Date(dt.y, dt.m, dt.d + 1)
    ELSE IF dt.m < 12 THEN Date(dt.y, dt.m + 1, 1)
    ELSE Date(dt.y + 1, 1, 1)

\* date - timedelta(days=1)
MinusOneDay(dt) ==
    IF dt.d > 1 THEN Date(dt.y, dt.m, dt.d - 1)
    ELSE IF dt.m > 1 THEN Date(dt.y, dt.m - 1, DaysInMonth(dt.y, dt.m - 1))
    ELSE Date(dt.y - 1, 12, 31)

\* a <= b on datetimes
DateLE(a, b) ==
    \/ a.y < b.y
    \/ a.y = b.y /\ a.m < b.m
    \/ a.y = b.y /\ a.m = b.m /\ a.d <= b.d

DateMin(a, b) == IF DateLE(a, b) THEN a ELSE b

\* date + timedelta(days=n), one day at a time
RECURSIVE PlusDays(_, _)
PlusDays(dt, n) ==
    IF n = 0 \/ dt.d < 1 THEN dt
    ELSE IF n > 0 THEN PlusDays(PlusOneDay(dt), n - 1)
    ELSE PlusDays(MinusOneDay(dt), n + 1)

(***************************************************************************)
(* generate_15day_chunks                                                   *)
(***************************************************************************)
\* first day of the month after cur's month (lines 128-131)
NextMonth(cur) ==
    IF cur.m = 12 THEN Date(cur.y + 1, 1, 1)
    ELSE Date(cur.y, cur.m + 1, 1)

\* ChunkEnd without line 137
ChunkEndUnclipped(cur, e) ==
    IF cur.d <= 15 THEN [cur EXCEPT !.d = 15]
    ELSE MinusOneDay(NextMonth(cur))

\* ChunkEnd with `current.day < 15` at line 122
ChunkEndBefore15(cur, e) ==
    LET chunk_end == IF cur.d < 15 THEN [cur EXCEPT !.d = 15]
                     ELSE MinusOneDay(NextMonth(cur))
    IN  DateMin(chunk_end, e)

\* the end of the chunk that starts at cur (lines 122-137)
ChunkEnd(cur, e) ==
    LET chunk_end == IF cur.d <= 15 THEN [cur EXCEPT !.d = 15]
                     ELSE MinusOneDay(NextMonth(cur))
    IN  DateMin(chunk_end, e)

\* WhileCondition comparing year and month only
WhileSameMonth(cur, e) == cur.y < e.y \/ (cur.y = e.y /\ cur.m <= e.m)

\* `while current <= end` (line 120)
WhileCondition(cur, e) == DateLE(cur, e)

\* one iteration of the loop
PlanStep ==
    /\ pc = "plan"
    /\ WhileCondition(current, end)
    /\ LET chunk_end == ChunkEnd(current, end)
       IN  /\ chunks' = Append(chunks, <<current, chunk_end>>)
           /\ current' = PlusOneDay(chunk_end)
    /\ UNCHANGED tvars
    /\ UNCHANGED <<pc, start, end, i, attempt, zip_path, archive, written,
                   stats, all_dataframes, output, raised, requests,
                   retry_delays, log, pace_delays, fetched,
                   seen>>

\* the loop condition fails: return chunks (download_all line 338 goes on)
PlanReturn ==
    /\ pc = "plan"
    /\ ~WhileCondition(current, end)
    /\ pc' = "chunk"
    /\ i' = 1
    /\ UNCHANGED tvars
    /\ UNCHANGED <<start, end, current, chunks, attempt, zip_path, archive,
                   written, stats, all_dataframes, output, raised, requests,
                   retry_delays, log, pace_delays, fetched,
                   seen>>

(***************************************************************************)
(* Tabular data.  A column name is a tuple of characters; a frame is       *)
(* [cols: sequence of column names, rows: sequence of rows], a row being a *)
(* sequence of cells aligned with cols.  Cells are strings; NaN marks a    *)
(* missing cell.                                                           *)
(***************************************************************************)
NaN == "NaN"

TIMESTAMP == <<"T", "I", "M", "E", "S", "T", "A", "M", "P">>
SYMBOL    == <<"S", "Y", "M", "B", "O", "L">>
TradeDate == <<"T", "r", "a", "d", "e", "D", "a", "t", "e">>
CLOSE     == <<"C", "L", "O", "S", "E">>

Range(s) == {s[k] : k \in DOMAIN s}

IndexOf(s, x) == CHOOSE k \in DOMAIN s : s[k] = x

\* str.upper(), on the letters that occur
UpperChar(c) ==
    CASE c = "a" -> "A" [] c = "d" -> "D" [] c = "e" -> "E"
      [] c = "r" -> "R" [] c = "t" -> "T" [] c = "i" -> "I" [] c = "m" -> "M"
      [] OTHER -> c

Upper(s) == [k \in DOMAIN s |-> UpperChar(s[k])]

\* sub in s
Contains(s, sub) ==
    \E k \in 1..(Len(s) - Len(sub) + 1) : SubSeq(s, k, k + Len(sub) - 1) = sub

\* order of the cells of a date column; NaN sorts last (na_position='last')
Rank(v) == CASE v = "D1" -> 1 [] v = "D2" -> 2 [] v = "D3" -> 3 [] OTHER -> 4

Frame(cols, rows) == [cols |-> cols, rows |-> rows]

Cell(df, row, col) == IF col \in Range(df.cols) THEN row[IndexOf(df.cols, col)] ELSE NaN

\* columns of pd.concat: union, in order of first appearance
RECURSIVE ConcatCols(_)
ConcatCols(frames) ==
    IF frames = <<>> THEN <<>>
    ELSE LET before == ConcatCols(SubSeq(frames, 1, Len(frames) - 1))
             last   == frames[Len(frames)].cols
         IN  before \o SelectSeq(last, LAMBDA c : c \notin Range(before))

\* pd.concat(frames, ignore_index=True)
RECURSIVE ConcatRows(_, _)
ConcatRows(frames, cols) ==
    IF frames = <<>> THEN <<>>
    ELSE LET f == frames[Len(frames)]
         IN  ConcatRows(SubSeq(frames, 1, Len(frames) - 1), cols) \o
             [r \in DOMAIN f.rows |-> [k \in DOMAIN cols |-> Cell(f, f.rows[r], cols[k])]]

Concat(frames) == LET cols == ConcatCols(frames) IN Frame(cols, ConcatRows(frames, cols))

\* df.empty: some axis has length 0
IsEmpty(df) == df.cols = <<>> \/ df.rows = <<>>

KeyOf(df, row, subset) == [k \in DOMAIN subset |-> Cell(df, row, subset[k])]

\* DropDuplicates with keep='last'
DropDuplicatesKeepLast(df, subset) ==
    LET keep(r) == \A q \in (r + 1)..Len(df.rows) :
                       KeyOf(df, df.rows[q], subset) # KeyOf(df, df.rows[r], subset)
        idx == SelectSeq([r \in DOMAIN df.rows |-> r], keep)
    IN  Frame(df.cols, [k \in DOMAIN idx |-> df.rows[idx[k]]])

\* df.drop_duplicates(subset=subset): keep='first'
DropDuplicates(df, subset) ==
    LET keep(r) == \A q \in 1..(r - 1) :
                       KeyOf(df, df.rows[q], subset) # KeyOf(df, df.rows[r], subset)
        idx == SelectSeq([r \in DOMAIN df.rows |-> r], keep)
    IN  Frame(df.cols, [k \in DOMAIN idx |-> df.rows[idx[k]]])

\* [col for col in final_df.columns if 'DATE' in col.upper() or 'TIME' in col.upper()]
DateCols(df) ==
    SelectSeq(df.cols, LAMBDA c : \/ Contains(Upper(c), <<"D", "A", "T", "E">>)
                                  \/ Contains(Upper(c), <<"T", "I", "M", "E">>))

\* df.sort_values(col): kind='quicksort' is not a stable sort, so every
\* ordering that is non-decreasing in col is a possible result
SortValues(df, col) ==
    LET n == Len(df.rows)
        sorted(p) == \A a, b \in 1..n :
                        a < b => Rank(Cell(df, df.rows[p[a]], col))
                                   <= Rank(Cell(df, df.rows[p[b]], col))
    IN  {Frame(df.cols, [k \in 1..n |-> df.rows[p[k]]]) :
            p \in {q \in Permutations(1..n) : sorted(q)}}

(***************************************************************************)
(* The remote source, the storage and the archives they deliver.           *)
(***************************************************************************)
max_retries == 3

\* what requests.post does: raise, or return a response
Transport ==
    [raises : {"RequestException", "Exception"},
     status_code : {0}, content_type : {""}, content_disposition : {""}] \cup
    [raises : {None},
     status_code : {200, 301, 302, 404, 500},
     content_type : {"application/octet-stream", "text/html"},
     content_disposition : {"", "attachment; filename=bhavcopy.zip"}]

\* 'application/octet-stream' in content_type or 'attachment' in content_disposition
IsArchiveResponse(r) ==
    \/ r.content_type \in {"application/octet-stream"}
    \/ r.content_disposition \in {"attachment; filename=bhavcopy.zip"}

\* what open(..., 'wb') / f.write do
WriteOutcomes == {"ok", "OSError"}

NoFrame == Frame(<<>>, <<>>)

\* a member of an archive: parses says whether the parser returns (content)
\* or raises
Entry(suffix, parses, content) ==
    [suffix |-> suffix, parses |-> parses, content |-> content]

MainFrame == Frame(<<SYMBOL, TIMESTAMP, CLOSE>>,
                   << <<"A", "D2", "10">>, <<"B", "D1", "11">> >>)
RowDupFrame == Frame(<<SYMBOL, TIMESTAMP, CLOSE>>,
                     << <<"B", "D1", "16">>, <<"B", "D1", "17">> >>)
AltFrame == Frame(<<SYMBOL, TradeDate, CLOSE>>,
                  << <<"A", "D1", "14">>, <<"A", "D1", "15">> >>)
HeaderOnly == Frame(<<SYMBOL, TIMESTAMP, CLOSE>>, <<>>)

\* the contents a downloaded file can have: [valid: is it a ZIP file,
\* entries: the members]
Archives ==
    { NoArchive,
      [valid |-> TRUE,  entries |-> <<Entry(".pdf", FALSE, NoFrame)>>],
      [valid |-> TRUE,  entries |-> <<Entry(".csv", TRUE, HeaderOnly)>>],
      [valid |-> TRUE,  entries |-> <<Entry(".csv", FALSE, NoFrame)>>],
      [valid |-> TRUE,  entries |-> <<Entry(".xls", FALSE, NoFrame)>>],
      [valid |-> TRUE,  entries |-> <<Entry(".CSV", TRUE, MainFrame), Entry(".pdf", FALSE, NoFrame)>>],
      [valid |-> TRUE,  entries |-> <<Entry(".xlsx", TRUE, RowDupFrame)>>],
      [valid |-> TRUE,  entries |->
          <<Entry(".csv", TRUE, Frame(<<SYMBOL, TIMESTAMP, CLOSE>>, << <<"A", "D2", "12">> >>)),
            Entry(".txt", TRUE, Frame(<<SYMBOL, TIMESTAMP, CLOSE>>, << <<"A", "D2", "13">> >>))>>],
      [valid |-> TRUE,  entries |-> <<Entry(".csv", TRUE, AltFrame)>>] }

\* str.lower() on a file suffix
Lower(suffix) ==
    CASE suffix = ".CSV" -> ".csv" [] suffix = ".TXT" -> ".txt"
      [] suffix = ".XLSX" -> ".xlsx" [] suffix = ".XLS" -> ".xls"
      [] OTHER -> suffix

\* zip_dir / f"bhav_{start_str}_to_{end_str}.zip"
ZipPath(chunk) == <<"zips", "bhav_", chunk[1], "_to_", chunk[2], ".zip">>

\* zip_dir / f"debug_{start_str}_{end_str}.html"
DebugPath(chunk) == <<"zips", "debug_", chunk[1], "_", chunk[2], ".html">>

(***************************************************************************)
(* download_bhav_zip: one action per iteration of the retry loop           *)
(***************************************************************************)
\* does the attempt write a file (the archive, or the debug artifact)
Writes(r) == r.raises = None /\ r.status_code = 200

\* what an attempt met, for the log
Met(r, w) ==
    IF r.raises # None THEN r.raises
    ELSE IF r.status_code = 200
         THEN IF IsArchiveResponse(r)
              THEN (IF w = "ok" THEN "archive" ELSE "archive_write_error")
              ELSE (IF w = "ok" THEN "not_archive" ELSE "debug_write_error")
    ELSE IF r.status_code \in {301, 302} THEN "redirect"
    ELSE "http_error"

\* SavesDebug for every response that is not an archive
SavesDebugOnAnyResponse(r, w) ==
    r.raises = None /\ ~(r.status_code = 200 /\ IsArchiveResponse(r)) /\ w = "ok"

\* lines 233-241: does this attempt write the debug artifact
SavesDebug(r, w) ==
    r.raises = None /\ r.status_code = 200 /\ ~IsArchiveResponse(r) /\ w = "ok"

\* Breaks with one handler for every exception
BreaksOnAnyException(r, w) ==
    \/ r.raises # None
    \/ r.raises = None /\ r.status_code = 200 /\ w = "OSError"

\* Breaks with the exceptions of open() and write() not caught
BreaksNotOnWriteErrors(r, w) == r.raises = "Exception"

\* does the exception raised in this attempt reach `except Exception: break`
Breaks(r, w) ==
    \/ r.raises = "Exception"
    \/ r.raises = None /\ r.status_code = 200 /\ w = "OSError"

\* Returns with the `return zip_path` of line 232 missing
ReturnsNever(r, w) == FALSE

\* does this attempt reach `return zip_path`
Returns(r, w) ==
    r.raises = None /\ r.status_code = 200 /\ IsArchiveResponse(r) /\ w = "ok"

\* Sleeps with the bound off by one
SleepsOffByOne(att) == att < max_retries - 2

\* `if attempt < self.max_retries - 1: time.sleep(self.retry_delay)`
Sleeps(att) == att < max_retries - 1

\* download_all line 348 calls download_bhav_zip for chunk i
BeginChunk ==
    /\ pc = "chunk"
    /\ i <= Len(chunks)
    /\ pc' = "attempt"
    /\ attempt' = 0
    /\ zip_path' = NoPath
    /\ archive' = NoArchive
    /\ requests' = 0
    /\ retry_delays' = 0
    /\ log' = <<>>
    /\ fetched' = Append(fetched, i)
    /\ UNCHANGED tvars
    /\ UNCHANGED <<start, end, current, chunks, i, written, stats,
                   all_dataframes, output, raised, pace_delays,
                   seen>>

Attempt ==
    /\ pc = "attempt"
    /\ attempt < max_retries
    /\ \E r \in Transport :
       \E w \in (IF Writes(r) THEN WriteOutcomes ELSE {"ok"}) :
       \E a \in (IF Returns(r, w) THEN Archives ELSE {NoArchive}) :
        /\ requests' = requests + 1
        /\ log' = Append(log, Met(r, w))
        /\ IF Returns(r, w)
           THEN \* lines 222-232
                /\ written' = written \cup {ZipPath(chunks[i])}
                /\ archive' = a
                /\ stats' = [stats EXCEPT !.files_downloaded =
                                Append(@, ZipPath(chunks[i]))]
                /\ zip_path' = ZipPath(chunks[i])
                /\ pc' = "fetched"
                /\ UNCHANGED <<attempt, retry_delays>>
           ELSE IF Breaks(r, w)
           THEN \* lines 258-263
                /\ pc' = "fetched"
                /\ UNCHANGED <<attempt, retry_delays, written, archive,
                               stats, zip_path>>
           ELSE \* lines 234-257, then the next iteration or line 262
                /\ written' = IF SavesDebug(r, w)
                              THEN written \cup {DebugPath(chunks[i])}
                              ELSE written
                /\ retry_delays' = IF Sleeps(attempt) THEN retry_delays + 1
                                   ELSE retry_delays
                /\ attempt' = attempt + 1
                /\ pc' = IF attempt + 1 < max_retries THEN "attempt" ELSE "fetched"
                /\ UNCHANGED <<archive, stats, zip_path>>
    /\ UNCHANGED tvars
    /\ UNCHANGED <<start, end, current, chunks, i, all_dataframes, output,
                   raised, pace_delays, fetched,
                   seen>>

(***************************************************************************)
(* extract_and_process_zip                                                 *)
(***************************************************************************)
IsCsv(e)   == Lower(e.suffix) \in {".csv", ".txt"}
IsExcel(e) == Lower(e.suffix) \in {".xlsx", ".xls"}

\* the frames appended to `dataframes` (lines 289-300)
Loaded(arch) ==
    LET tabular == SelectSeq(arch.entries, LAMBDA e : IsCsv(e) \/ IsExcel(e))
    IN  [k \in DOMAIN tabular |-> tabular[k].content]

\* does read_csv / read_excel raise on some member
ParserRaises(arch) ==
    \E k \in DOMAIN arch.entries :
        (IsCsv(arch.entries[k]) \/ IsExcel(arch.entries[k])) /\ ~arch.entries[k].parses

Failed == [ok |-> FALSE, df |-> NoFrame, records |-> 0]

\* the result: [ok: a frame is returned (not None), df: the frame,
\* records: added to total_records]; unpack is what extractall does
ExtractAndProcess(arch, unpack) ==
    IF ~arch.valid THEN Failed                    \* BadZipFile
    ELSE IF unpack # "ok" THEN Failed               \* except Exception
    ELSE IF ParserRaises(arch) THEN Failed        \* except Exception
    ELSE IF Loaded(arch) = <<>> THEN Failed       \* line 311
    ELSE LET combined_df == Concat(Loaded(arch))
         IN  [ok |-> TRUE, df |-> combined_df, records |-> Len(combined_df.rows)]

(***************************************************************************)
(* download_all                                                            *)
(***************************************************************************)
\* IsGood without `and not df.empty`
IsGoodNotNone(res) == res.ok

\* `if df is not None and not df.empty` (line 354)
IsGood(res) == res.ok /\ ~IsEmpty(res.df)

\* download_all has taken the result of download_bhav_zip: the locals of the
\* call are gone, and so is what was observed of it
CallOver ==
    /\ attempt' = 0
    /\ requests' = 0
    /\ retry_delays' = 0
    /\ log' = <<>>

\* the rows read from the archive of chunk c, member by member and row by
\* row: [chunk, file: position of the member, row: position in the member,
\* cells: column name -> cell]
RECURSIVE Encounter(_, _)
Encounter(arch, c) ==
    IF arch.entries = <<>> THEN <<>>
    ELSE LET n == Len(arch.entries)
             e == arch.entries[n]
             rest == [arch EXCEPT !.entries = SubSeq(arch.entries, 1, n - 1)]
         IN  Encounter(rest, c) \o
             (IF IsCsv(e) \/ IsExcel(e)
              THEN [r \in DOMAIN e.content.rows |->
                      [chunk |-> c, file |-> n, row |-> r,
                       cells |-> [col \in Range(e.content.cols) |->
                                    Cell(e.content, e.content.rows[r], col)]]]
              ELSE <<>>)

\* Collected with the frame appended whatever it is
CollectedAlways(frames, res) == Append(frames, res.df)

\* lines 354-355: all_dataframes after the chunk
Collected(frames, res) == IF IsGood(res) THEN Append(frames, res.df) ELSE frames

\* Counted with the `else` branches of lines 357-360 missing
CountedGoodOnly(st, good) ==
    [st EXCEPT !.successful = IF good THEN @ + 1 ELSE @]

\* lines 356-360: the counters after the chunk
Counted(st, good) ==
    [st EXCEPT !.successful = IF good THEN @ + 1 ELSE @,
               !.failed = IF good THEN @ ELSE @ + 1]

\* AfterFailed with a failed chunk ending the run
AfterFailedReturns == "done"

\* where download_all goes after lines 358 and 360: on to line 363
AfterFailed == "pace"

\* lines 350-358: a path came back
ProcessZip ==
    /\ pc = "fetched"
    /\ zip_path # NoPath
    /\ \E unpack \in WriteOutcomes :
        LET res == ExtractAndProcess(archive, unpack)
        IN  /\ all_dataframes' = Collected(all_dataframes, res)
            /\ stats' = Counted([stats EXCEPT !.total_records = @ + res.records],
                                IsGood(res))
            /\ seen' = IF IsGood(res) THEN seen \o Encounter(archive, i) ELSE seen
            /\ pc' = IF IsGood(res) THEN "pace" ELSE AfterFailed
    /\ archive' = NoArchive
    /\ CallOver
    /\ UNCHANGED tvars
    /\ UNCHANGED <<start, end, current, chunks, i, zip_path, written, output,
                   raised, pace_delays, fetched>>

\* lines 359-360: download_bhav_zip returned None
CountFailed ==
    /\ pc = "fetched"
    /\ zip_path = NoPath
    /\ stats' = Counted(stats, FALSE)
    /\ pc' = AfterFailed
    /\ CallOver
    /\ UNCHANGED tvars
    /\ UNCHANGED <<start, end, current, chunks, i, zip_path, archive, written,
                   all_dataframes, output, raised, pace_delays, fetched,
                   seen>>

\* Paces after the last chunk too
PacesAfterLast(k, n) == k <= n

\* `if i < len(chunks)` (line 363)
Paces(k, n) == k < n

\* lines 362-365, and the loop moves on
Pace ==
    /\ pc = "pace"
    /\ pace_delays' = IF Paces(i, Len(chunks)) THEN pace_delays + 1 ELSE pace_delays
    /\ i' = i + 1
    /\ pc' = "chunk"
    /\ UNCHANGED tvars
    /\ UNCHANGED <<start, end, current, chunks, attempt, zip_path, archive,
                   written, stats, all_dataframes, output, raised, requests,
                   retry_delays, log, fetched,
                   seen>>

\* Deduplicated with the result of drop_duplicates not assigned
DeduplicatedDropped(df) == df

\* lines 375-377
Deduplicated(df) ==
    IF TIMESTAMP \in Range(df.cols) /\ SYMBOL \in Range(df.cols)
    THEN DropDuplicates(df, <<TIMESTAMP, SYMBOL>>)
    ELSE df

\* Sorted with the sort step missing
SortedSkipped(df) == {df}

\* lines 383-385: the possible results of the sort step
Sorted(df) ==
    IF DateCols(df) # <<>> THEN SortValues(df, DateCols(df)[1]) ELSE {df}

\* lines 372-385: the possible final frames
FinalFrames(frames) == Sorted(Deduplicated(Concat(frames)))

\* lines 367-408: after the loop
Finalize ==
    /\ pc = "chunk"
    /\ i > Len(chunks)
    /\ IF all_dataframes # <<>>
       THEN \E final_df \in FinalFrames(all_dataframes), w \in WriteOutcomes :
               IF w = "ok"
               THEN output' = <<final_df>> /\ pc' = "done" /\ raised' = raised
               ELSE output' = output /\ pc' = "raised" /\ raised' = w
       ELSE output' = output /\ pc' = "done" /\ raised' = raised
    /\ UNCHANGED tvars
    /\ UNCHANGED <<start, end, current, chunks, i, attempt, zip_path, archive,
                   written, stats, all_dataframes, requests, retry_delays,
                   log, pace_delays, fetched,
                   seen>>

(***************************************************************************)
(* find_ticker_changes_from_bhavcopies                                     *)
(*                                                                         *)
(* A file is [folder, name, ext]: folder is the rank of its subfolder in   *)
(* string order, name is [token, day] for "<token>_NSE" with token either  *)
(* the 8 digits of day `day` or a text, ext is the suffix.                 *)
(***************************************************************************)
File(folder, token, day, ext) ==
    [folder |-> folder, name |-> [token |-> token, day |-> day], ext |-> ext]

MaxDay  == 3
MaxRows == 2

ISINs  == {"I1", "I2"}
Labels == {"A", "B", "C"}

\* the cells a SYMBOL column can hold
RawSymbols == Labels \cup {" A ", NaN}

\* the rows a file can hold: every equity row, and some rows of another series
RowInputs ==
    [series : {"EQ"}, isin : ISINs \cup {NaN}, raw : RawSymbols] \cup
    { [series |-> "DEBT", isin |-> "I1", raw |-> "B"],
      [series |-> "DEBT", isin |-> "I2", raw |-> NaN],
      [series |-> "DEBT", isin |-> NaN, raw |-> "C"] }

\* the contents of base_folder
Disks ==
    { {File(1, "text", 0, ".txt")},
      {File(1, "date", 1, ".csv"), File(1, "date", 2, ".CSV"),
       File(1, "text", 0, ".txt")},
      {File(1, "date", 3, ".csv"), File(2, "date", 1, ".csv")},
      {File(1, "date", 1, ".csv"), File(1, "text", 0, ".csv"),
       File(2, "date", 2, ".csv")} }

\* file.endswith(('.csv', '.CSV'))
IsCsvName(f) == f.ext \in {".csv", ".CSV"}

\* string order of the file names: digits sort before letters
NameRank(name) == IF name.token = "date" THEN name.day ELSE MaxDay + 1

\* string order of os.path.join(root, file)
PathLess(a, b) ==
    \/ a.folder < b.folder
    \/ a.folder = b.folder /\ NameRank(a.name) < NameRank(b.name)

\* all_files.sort()
RECURSIVE SortPaths(_)
SortPaths(S) ==
    IF S = {} THEN <<>>
    ELSE LET m == CHOOSE x \in S : \A y \in S \ {x} : PathLess(x, y)
         IN  <<m>> \o SortPaths(S \ {m})

\* datetime.strptime(file_name.split('_')[0], '%Y%m%d') raises ValueError
BadDate(f) == f.name.token # "date"

\* str.strip()
Strip(sym) == IF sym = " A " THEN "A" ELSE sym

NoRow == [series |-> "", isin |-> "", symbol |-> ""]

\* InEquity with the filter of line 60 missing
InEquityAll(series) == TRUE

\* df['SERIES'] == 'EQ' (line 60)
InEquity(series) == series = "EQ"

\* pd.isna(isin) (line 66)
IsNa(isin) == isin = NaN

\* IsNewSymbol answering yes for every symbol
IsNewSymbolAlways(rec, symbol) == TRUE

\* IsNewSymbol against the current symbol only
IsNewSymbolVsCurrent(rec, symbol) == symbol # rec.last_seen_symbol

\* `if symbol not in isin_tracker[isin]['symbols']` (line 78)
IsNewSymbol(rec, symbol) == symbol \notin rec.symbols

\* OldSymbol taken from the set, whichever member comes
OldSymbolFromSet(rec) == CHOOSE sym \in rec.symbols : TRUE

\* `old_symbol = isin_tracker[isin]['last_seen_symbol']` (line 79)
OldSymbol(rec) == rec.last_seen_symbol

\* Renamed with the set replaced instead of extended
RenamedReplacing(rec, symbol) ==
    [rec EXCEPT !.symbols = {symbol}, !.last_seen_symbol = symbol]

\* lines 93-94: the record after a new symbol
Renamed(rec, symbol) ==
    [rec EXCEPT !.symbols = @ \cup {symbol}, !.last_seen_symbol = symbol]

\* lines 25-43: discover and sort the files
Scan ==
    /\ tpc = "scan"
    /\ LET found == {f \in disk : IsCsvName(f)}
       IN  IF found = {}
           THEN /\ tpc' = "done"           \* line 39: return pd.DataFrame()
                /\ UNCHANGED <<all_files, file_no>>
           ELSE /\ all_files' = SortPaths(found)
                /\ file_no' = 1
                /\ tpc' = "file"
    /\ UNCHANGED <<disk, current_date, rows_read, isin_tracker, changes_log,
                   processed_files, result, texc, last_row, observed,
                   contents, run, first>>
    /\ UNCHANGED dvars

\* what pd.read_csv(file_path, usecols=[...]) does: return, or raise
ReadOutcomes == {"ok", "FileNotFoundError", "EmptyDataError", "ValueError"}

\* a row of a file
R(series, isin, raw) == [series |-> series, isin |-> isin, raw |-> raw]

\* what a given file can hold: [read: what read_csv does on it, rows]
Snapshots ==
    { [read |-> "ok", rows |-> <<R("EQ", "I1", "A"), R("EQ", "I2", "B")>>],
      [read |-> "ok", rows |-> <<R("EQ", "I1", "B"), R("DEBT", "I2", "C"),
                                 R("EQ", "I2", "A")>>],
      [read |-> "ok", rows |-> <<R("EQ", "I1", " A "), R("EQ", "I2", "C"),
                                 R("EQ", NaN, "B")>>],
      [read |-> "ok", rows |-> <<R("EQ", "I1", "C"), R("EQ", "I2", NaN)>>],
      [read |-> "ok", rows |-> <<>>],
      [read |-> "EmptyDataError", rows |-> <<>>],
      [read |-> "ValueError", rows |-> <<>>] }

\* no file is given
NoContents == [f \in {} |-> 0]

\* no call has ended
NoOutcome == [tpc |-> "", result |-> <<>>, texc |-> None]

\* what pd.read_csv can do on file f
ReadsOf(f) == IF run = 0 THEN ReadOutcomes ELSE {contents[f].read}

\* is there a row after the first n rows of file f
HasRow(f, n) == IF run = 0 THEN n < MaxRows ELSE n < Len(contents[f].rows)

\* the rows that can follow the first n rows of file f
RowsAt(f, n) == IF run = 0 THEN RowInputs ELSE {contents[f].rows[n + 1]}

\* have n rows exhausted file f
Exhausted(f, n) == IF run = 0 THEN TRUE ELSE n = Len(contents[f].rows)

\* EnterTracker with the dict of the previous call kept
EnterTrackerKept(prev) == prev

\* `isin_tracker = {}` (line 20): a new dict at every call, whatever the
\* previous call left in its own
EnterTracker(prev) == [x \in {} |-> 0]

\* lines 48-60: the next file is opened
StartFile ==
    /\ tpc = "file"
    /\ file_no <= Len(all_files)
    /\ IF BadDate(all_files[file_no])
       THEN \* ValueError of strptime: no handler of lines 100-105 takes it
            /\ texc' = "ValueError"
            /\ tpc' = "raised"
            /\ UNCHANGED <<file_no, current_date, rows_read>>
       ELSE \E o \in ReadsOf(all_files[file_no]) :
            /\ current_date' = all_files[file_no].name.day
            /\ CASE o = "ok" ->
                      /\ tpc' = "rows"
                      /\ rows_read' = 0
                      /\ UNCHANGED <<file_no, texc>>
                 [] o \in {"FileNotFoundError", "EmptyDataError"} ->
                      \* lines 100-102: warning, continue
                      /\ file_no' = file_no + 1
                      /\ UNCHANGED <<tpc, rows_read, texc>>
                 [] o = "ValueError" ->
                      \* a missing column: usecols raises ValueError, not KeyError
                      /\ texc' = o
                      /\ tpc' = "raised"
                      /\ UNCHANGED <<file_no, rows_read>>
    /\ last_row' = NoRow
    /\ UNCHANGED <<disk, all_files, isin_tracker, changes_log,
                   processed_files, result, observed, contents, run, first>>
    /\ UNCHANGED dvars

\* lines 60-94: the next row of the file
Row ==
    /\ tpc = "rows"
    /\ HasRow(all_files[file_no], rows_read)
    /\ \E row \in RowsAt(all_files[file_no], rows_read) :
       LET series == row.series
           isin == row.isin
           raw == row.raw
       IN
        /\ rows_read' = rows_read + 1
        /\ IF ~InEquity(series)
           THEN \* line 60: the row is not in equity_df
                /\ last_row' = [series |-> series, isin |-> isin, symbol |-> raw]
                /\ UNCHANGED <<tpc, isin_tracker, changes_log, texc, observed>>
           ELSE IF raw = NaN
           THEN \* line 64: a float has no strip(): AttributeError, not handled
                /\ last_row' = [series |-> series, isin |-> isin, symbol |-> raw]
                /\ texc' = "AttributeError"
                /\ tpc' = "raised"
                /\ UNCHANGED <<isin_tracker, changes_log, observed>>
           ELSE LET symbol == Strip(raw) IN
                /\ last_row' = [series |-> series, isin |-> isin, symbol |-> symbol]
                /\ UNCHANGED <<tpc, texc>>
                /\ IF IsNa(isin)
                   THEN \* lines 66-67
                        UNCHANGED <<isin_tracker, changes_log, observed>>
                   ELSE /\ observed' = [observed EXCEPT ![isin] = symbol]
                        /\ IF isin \notin DOMAIN isin_tracker
                           THEN \* lines 70-75
                                /\ isin_tracker' =
                                      [x \in DOMAIN isin_tracker \cup {isin} |->
                                          IF x = isin
                                          THEN [symbols |-> {symbol},
                                                last_seen_symbol |-> symbol,
                                                first_seen |-> current_date]
                                          ELSE isin_tracker[x]]
                                /\ UNCHANGED changes_log
                           ELSE IF IsNewSymbol(isin_tracker[isin], symbol)
                           THEN \* lines 79-94
                                /\ changes_log' = Append(changes_log,
                                      [ISIN |-> isin,
                                       Old_Symbol |-> OldSymbol(isin_tracker[isin]),
                                       New_Symbol |-> symbol,
                                       Date_Detected |-> current_date])
                                /\ isin_tracker' = [isin_tracker EXCEPT
                                       ![isin] = Renamed(@, symbol)]
                           ELSE UNCHANGED <<isin_tracker, changes_log>>
    /\ UNCHANGED <<disk, all_files, file_no, current_date, processed_files,
                   result, contents, run, first>>
    /\ UNCHANGED dvars

\* lines 96-98: the file has no more rows
EndFile ==
    /\ tpc = "rows"
    /\ Exhausted(all_files[file_no], rows_read)
    /\ processed_files' = processed_files + 1
    /\ file_no' = file_no + 1
    /\ tpc' = "file"
    /\ last_row' = NoRow
    /\ UNCHANGED <<disk, all_files, current_date, rows_read, isin_tracker,
                   changes_log, result, texc, observed, contents, run, first>>
    /\ UNCHANGED dvars

\* lines 107-114: the list is exhausted
Return ==
    /\ tpc = "file"
    /\ file_no > Len(all_files)
    /\ result' = changes_log
    /\ tpc' = "done"
    /\ UNCHANGED <<disk, all_files, file_no, current_date, rows_read, isin_tracker,
                   changes_log, processed_files, texc, last_row, observed,
                   contents, run, first>>
    /\ UNCHANGED dvars

\* the function is called again over the same files: lines 20-27 of the
\* second call
CallAgain ==
    /\ run = 1
    /\ tpc \in {"done", "raised"}
    /\ first' = [tpc |-> tpc, result |-> result, texc |-> texc]
    /\ run' = 2
    /\ tpc' = "scan"
    /\ isin_tracker' = EnterTracker(isin_tracker)
    /\ changes_log' = <<>>
    /\ all_files' = <<>>
    /\ file_no' = 0
    /\ current_date' = 0
    /\ rows_read' = 0
    /\ processed_files' = 0
    /\ result' = <<>>
    /\ texc' = None
    /\ last_row' = NoRow
    /\ observed' = [x \in ISINs |-> None]
    /\ UNCHANGED <<disk, contents>>
    /\ UNCHANGED dvars

(***************************************************************************)
(* Specifications                                                          *)
(***************************************************************************)
\* the ranges given to download_all, as <<start, days from start to end>>:
\* an inverted range, and ranges of one, two and three chunks
RunRanges ==
    { <<Date(2024, 2, 10), 0 - 1>>,
      <<Date(2024, 2, 10), 0>>,
      <<Date(2023, 12, 20), 12>>,
      <<Date(2024, 2, 10), 25>> }

\* the ranges given to generate_15day_chunks alone
PlanYears == {2023, 2024}
MaxSpan   == 50
MaxBack   == 2

\* the state at the call of find_ticker_changes_from_bhavcopies
TickerStart ==
    /\ all_files = <<>>
    /\ file_no = 0
    /\ current_date = 0
    /\ rows_read = 0
    /\ isin_tracker = EnterTracker([x \in {} |-> 0])
    /\ changes_log = <<>>
    /\ processed_files = 0
    /\ result = <<>>
    /\ texc = None
    /\ last_row = NoRow
    /\ observed = [x \in ISINs |-> None]

\* one call over files that are read as they come
SingleCall ==
    /\ run = 0
    /\ contents = NoContents
    /\ first = NoOutcome

InitCommon ==
    /\ current = start
    /\ chunks = <<>>
    /\ i = 0
    /\ attempt = 0
    /\ zip_path = NoPath
    /\ archive = NoArchive
    /\ written = {}
    /\ stats = [successful |-> 0, failed |-> 0, total_records |-> 0,
                files_downloaded |-> <<>>]
    /\ all_dataframes = <<>>
    /\ output = <<>>
    /\ raised = None
    /\ requests = 0
    /\ retry_delays = 0
    /\ log = <<>>
    /\ pace_delays = 0
    /\ fetched = <<>>
    /\ seen = <<>>

Init ==
    /\ pc = "plan"
    /\ tpc = "idle"
    /\ disk = {}
    /\ TickerStart
    /\ SingleCall
    /\ \E range \in RunRanges :
          /\ start = range[1]
          /\ end = PlusDays(range[1], range[2])
    /\ InitCommon

Next ==
    \/ PlanStep
    \/ PlanReturn
    \/ BeginChunk
    \/ Attempt
    \/ ProcessZip
    \/ CountFailed
    \/ Pace
    \/ Finalize

Spec == Init /\ [][Next]_vars

InitPlan ==
    /\ pc = "plan"
    /\ tpc = "idle"
    /\ disk = {}
    /\ TickerStart
    /\ SingleCall
    /\ start \in {Date(y, m, d) : y \in PlanYears, m \in 1..12, d \in 1..31}
    /\ start.d <= DaysInMonth(start.y, start.m)
    /\ end \in {PlusDays(start, n) : n \in (0 - MaxBack)..MaxSpan}
    /\ InitCommon

NextPlan ==
    \/ PlanStep
    \/ PlanReturn

SpecPlan == InitPlan /\ [][NextPlan]_vars

InitTicker ==
    /\ tpc = "scan"
    /\ disk \in Disks
    /\ TickerStart
    /\ SingleCall
    /\ pc = "idle"
    /\ start = Date(2024, 1, 1)
    /\ end = Date(2024, 1, 1)
    /\ InitCommon

NextTicker ==
    \/ Scan
    \/ StartFile
    \/ Row
    \/ EndFile
    \/ Return

SpecTicker == InitTicker /\ [][NextTicker]_vars

InitTwice ==
    /\ tpc = "scan"
    /\ disk \in Disks
    /\ TickerStart
    /\ run = 1
    /\ contents \in [{f \in disk : IsCsvName(f)} -> Snapshots]
    /\ first = NoOutcome
    /\ pc = "idle"
    /\ start = Date(2024, 1, 1)
    /\ end = Date(2024, 1, 1)
    /\ InitCommon

NextTwice ==
    \/ Scan
    \/ StartFile
    \/ Row
    \/ EndFile
    \/ Return
    \/ CallAgain

SpecTwice == InitTwice /\ [][NextTwice]_vars

(***************************************************************************)
(* Properties of generate_15day_chunks                                     *)
(***************************************************************************)
\* the calendar, written out: the last day of each month of the years used
CalendarLastDay(y, m) ==
    CASE m \in {1, 3, 5, 7, 8, 10, 12} -> 31
      [] m \in {4, 6, 9, 11} -> 30
      [] m = 2 -> IF y \in {2020, 2024, 2028} THEN 29 ELSE 28

RECURSIVE DaysBeforeMonth(_, _)
DaysBeforeMonth(y, m) ==
    IF m = 1 THEN 0 ELSE DaysBeforeMonth(y, m - 1) + CalendarLastDay(y, m - 1)

RECURSIVE DaysBeforeYear(_)
DaysBeforeYear(y) ==
    IF y <= 2020 THEN 0
    ELSE DaysBeforeYear(y - 1) + DaysBeforeMonth(y - 1, 12) + 31

\* the number of the day dt, counted from 2020-01-01
Ordinal(dt) == DaysBeforeYear(dt.y) + DaysBeforeMonth(dt.y, dt.m) + dt.d

Planned == pc # "plan"

\* C1: for start <= end the returned chunks are contiguous and
\* non-overlapping: the first starts at start, each later one starts the day
\* after the previous one ends, every chunk has start <= end, and the last
\* ends at end, so that they cover [start, end] exactly.
C1_ChunksCoverRange ==
    (Planned /\ Ordinal(start) <= Ordinal(end)) =>
        /\ chunks # <<>>
        /\ chunks[1][1] = start
        /\ chunks[Len(chunks)][2] = end
        /\ \A k \in DOMAIN chunks : Ordinal(chunks[k][1]) <= Ordinal(chunks[k][2])
        /\ \A k \in 1..(Len(chunks) - 1) :
              Ordinal(chunks[k + 1][1]) = Ordinal(chunks[k][2]) + 1

C1_Witness ==
    /\ Planned
    /\ Len(chunks) >= 4
    /\ chunks[1][1].y # chunks[Len(chunks)][2].y
    /\ chunks[Len(chunks)][2].d \notin {15, 31}

\* the end the claim gives to a chunk that starts at s
ExpectedEnd(s) ==
    LET stop == IF s.d <= 15 THEN Date(s.y, s.m, 15)
                ELSE Date(s.y, s.m, CalendarLastDay(s.y, s.m))
    IN  IF Ordinal(end) <= Ordinal(stop) THEN end ELSE stop

\* C2: every chunk ends at min(end, day 15 of its month) when it starts on
\* day <= 15 and at min(end, last day of its month) otherwise; the range
\* 2024-02-01..2024-03-20 gives (02-01,02-15), (02-16,02-29), (03-01,03-15),
\* (03-16,03-20).
C2_ChunkEnds ==
    /\ \A k \in DOMAIN chunks : chunks[k][2] = ExpectedEnd(chunks[k][1])
    /\ (Planned /\ start = Date(2024, 2, 1) /\ end = Date(2024, 3, 20)) =>
          chunks = << <<Date(2024, 2, 1), Date(2024, 2, 15)>>,
                      <<Date(2024, 2, 16), Date(2024, 2, 29)>>,
                      <<Date(2024, 3, 1), Date(2024, 3, 15)>>,
                      <<Date(2024, 3, 16), Date(2024, 3, 20)>> >>

C2_Witness ==
    /\ Planned
    /\ start = Date(2024, 2, 1)
    /\ end = Date(2024, 3, 20)
    /\ Len(chunks) = 4

(***************************************************************************)
(* Properties of download_all                                              *)
(***************************************************************************)
Inverted == Ordinal(end) < Ordinal(start)

\* C3, as claimed: a start after the end is refused with a range error, so
\* that no chunk list is returned and the run does not complete normally.
C3_InvertedRangeIsRefused ==
    Inverted => pc \in {"plan", "raised"}

\* C3, as the code has it: a start after the end gives the empty chunk list
\* without an error, and download_all completes as a run over zero chunks:
\* nothing is fetched, counted or written.
C3_InvertedRangeGivesNoChunks ==
    Inverted =>
        /\ chunks = <<>>
        /\ pc \in {"plan", "chunk", "done"}
        /\ raised = None
        /\ fetched = <<>>
        /\ requests = 0
        /\ output = <<>>
        /\ written = {}
        /\ stats.successful = 0 /\ stats.failed = 0

C3_Witness == Inverted /\ pc = "done"

(***************************************************************************)
(* Properties of download_bhav_zip.  requests, retry_delays and log        *)
(* describe the call in progress, from BeginChunk until download_all takes *)
(* its result (ProcessZip, CountFailed).                                   *)
(***************************************************************************)
Last(s) == s[Len(s)]

\* failures after which the loop goes on to the next attempt
Retried == {"http_error", "redirect", "not_archive", "RequestException"}

\* failures that leave the loop through `except Exception: break`
Unexpected == {"Exception", "archive_write_error", "debug_write_error"}

\* the response of the last attempt was a recognized archive
ArchiveReceived == log # <<>> /\ Last(log) \in {"archive", "archive_write_error"}

\* C4: a call of download_bhav_zip issues at most max_retries requests, and
\* once an attempt has received a recognized archive response the call makes
\* no further request and no further retry delay.
C4_BoundedRetries ==
    [][ /\ requests' <= max_retries
        /\ ArchiveReceived =>
              \/ requests' = requests /\ retry_delays' = retry_delays
              \/ pc' = "pace" /\ log' = <<>> ]_vars

C4_Witness ==
    /\ log = <<"http_error", "archive">>
    /\ pc = "fetched"
    /\ requests = 2
    /\ retry_delays = 1

\* C5: when the first k attempts fail in a retried way (k < max_retries) and
\* attempt k+1 brings a recognized archive, which is stored, the call returns
\* the archive location after exactly k+1 requests and exactly k retry
\* delays; fail, fail, succeed gives success on attempt 3 with 2 delays.
C5_SuccessAfterRetries ==
    (/\ log # <<>>
     /\ Last(log) = "archive"
     /\ \A k \in 1..(Len(log) - 1) : log[k] \in Retried) =>
        /\ pc # "attempt"
        /\ zip_path = ZipPath(chunks[Last(fetched)])
        /\ zip_path # NoPath
        /\ requests = Len(log)
        /\ retry_delays = Len(log) - 1
        /\ Len(log) <= max_retries

C5_Witness ==
    /\ log = <<"redirect", "RequestException", "archive">>
    /\ zip_path # NoPath
    /\ requests = 3
    /\ retry_delays = 2

\* the call for the chunk in progress has returned and no attempt succeeded
AllFailed == pc = "fetched" /\ "archive" \notin Range(log)

\* C6, as claimed: when every attempt fails, whatever the failure (an
\* exception of any kind included), exactly max_retries requests are issued
\* before Failed is returned.
C6_AlwaysMaxRetriesRequests ==
    AllFailed => (requests = max_retries /\ zip_path = NoPath)

\* C6, as the code has it: when every attempt fails, None is returned and
\* nothing is raised.  A non-200 status, a redirect, a 200 response that is
\* not an archive and a RequestException are retried: a call that met only
\* those makes exactly max_retries requests and max_retries - 1 delays.  Any
\* other exception of an attempt (an OSError of a write included) ends the
\* loop at that attempt, after at most max_retries requests.
C6_FailedAfterRetries ==
    AllFailed =>
        /\ zip_path = NoPath
        /\ raised = None
        /\ requests = Len(log)
        /\ \A k \in 1..(Len(log) - 1) : log[k] \in Retried
        /\ Last(log) \in Retried =>
              (requests = max_retries /\ retry_delays = max_retries - 1)
        /\ Last(log) \in Unexpected => requests <= max_retries

C6_Witness ==
    /\ AllFailed
    /\ log = <<"redirect", "not_archive", "RequestException">>
    /\ requests = max_retries

(***************************************************************************)
(* Properties of the consolidated dataset                                  *)
(***************************************************************************)
Saved == pc = "done" /\ output # <<>>

\* the cell of a row as it was read, NaN when its file has no such column
SeenCell(s, col) == IF col \in DOMAIN s.cells THEN s.cells[col] ELSE NaN

SeenKey(s, subset) == [k \in DOMAIN subset |-> SeenCell(s, subset[k])]

\* the row of the output is the row s as it was read
SameRow(df, row, s) == \A col \in Range(df.cols) : Cell(df, row, col) = SeenCell(s, col)

UniqueBy(df, subset) ==
    \A a, b \in DOMAIN df.rows :
        a # b => KeyOf(df, df.rows[a], subset) # KeyOf(df, df.rows[b], subset)

\* every row of df is, for its key, the first row read with that key, and
\* every key read has its row in df
FirstSeenKept(df, subset) ==
    /\ \A r \in DOMAIN df.rows :
          \E n \in DOMAIN seen :
              /\ SameRow(df, df.rows[r], seen[n])
              /\ \A q \in 1..(n - 1) : SeenKey(seen[q], subset) # SeenKey(seen[n], subset)
    /\ \A n \in DOMAIN seen :
          \E r \in DOMAIN df.rows : KeyOf(df, df.rows[r], subset) = SeenKey(seen[n], subset)

HasKeyColumns(df) == TIMESTAMP \in Range(df.cols) /\ SYMBOL \in Range(df.cols)

\* C7: when download_all deduplicates, the written dataset has no two rows
\* with the same (date, symbol) key, and the row kept for a key is the first
\* one read with it, in chunk order and within a chunk in file-then-row
\* order, whatever order the later sort gives.
C7_FirstOccurrenceKept ==
    (Saved /\ HasKeyColumns(output[1])) =>
        /\ UniqueBy(output[1], <<TIMESTAMP, SYMBOL>>)
        /\ FirstSeenKept(output[1], <<TIMESTAMP, SYMBOL>>)

\* rows were dropped across chunks and across the files of one chunk
C7_Witness ==
    /\ Saved
    /\ HasKeyColumns(output[1])
    /\ \E a, b \in DOMAIN seen :
          /\ seen[a].chunk < seen[b].chunk
          /\ SeenKey(seen[a], <<TIMESTAMP, SYMBOL>>) = SeenKey(seen[b], <<TIMESTAMP, SYMBOL>>)
    /\ \E a, b \in DOMAIN seen :
          /\ seen[a].chunk = seen[b].chunk
          /\ seen[a].file < seen[b].file
          /\ SeenKey(seen[a], <<TIMESTAMP, SYMBOL>>) = SeenKey(seen[b], <<TIMESTAMP, SYMBOL>>)
    /\ Len(output[1].rows) < Len(seen)

\* C8, as claimed: when the dataset has a column the sort step takes as the
\* date and a symbol column, the written dataset is unique by that date
\* column and the symbol.
C8_UniqueByDateLikeColumn ==
    (Saved /\ DateCols(output[1]) # <<>> /\ SYMBOL \in Range(output[1].cols)) =>
        UniqueBy(output[1], <<DateCols(output[1])[1], SYMBOL>>)

\* C8, as the code has it: deduplication is triggered by the two column
\* names 'TIMESTAMP' and 'SYMBOL' alone.  With both columns the written
\* dataset is unique by (TIMESTAMP, SYMBOL); without one of them no row is
\* removed, also when the sort step finds a date-like column to sort by.
C8_UniqueByTimestampSymbol ==
    Saved =>
        IF HasKeyColumns(output[1])
        THEN UniqueBy(output[1], <<TIMESTAMP, SYMBOL>>)
        ELSE Len(output[1].rows) = Len(seen)

\* both columns are there, the sort goes by another date-like column, and
\* rows were removed
C8_Witness ==
    /\ Saved
    /\ HasKeyColumns(output[1])
    /\ DateCols(output[1])[1] = TradeDate
    /\ Len(output[1].rows) < Len(seen)

(***************************************************************************)
(* Properties of find_ticker_changes_from_bhavcopies                       *)
(***************************************************************************)
Tracked == DOMAIN isin_tracker

\* C9: for every tracked identifier, last_seen_symbol is the symbol of the
\* most recently processed equity row that carried the identifier, also
\* after the identifier has returned to a symbol it used before.
C9_CurrentLabelIsLastObserved ==
    \A isin \in Tracked : isin_tracker[isin].last_seen_symbol = observed[isin]

\* the step appends to changes_log
Appends == changes_log' # changes_log

\* the step handles an equity row that carries a tracked identifier with a
\* symbol that is not in the identifier's set
NewSymbolRow ==
    /\ rows_read' = rows_read + 1
    /\ last_row'.series = "EQ"
    /\ last_row'.isin \in Tracked
    /\ last_row'.symbol # NaN
    /\ last_row'.symbol \notin isin_tracker[last_row'.isin].symbols

\* C10: a change record is appended only by a step that handles an equity
\* row carrying a tracked identifier with a symbol outside the identifier's
\* set; such a step appends exactly one record, with the old symbol = the
\* current symbol before the step, the new symbol = the symbol of the row
\* and the date of the file in progress, and then the symbol is in the set
\* and is the current symbol.
C10_RenameEventRule ==
    [][ /\ Appends => NewSymbolRow
        /\ NewSymbolRow =>
              LET isin == last_row'.isin
                  symbol == last_row'.symbol
              IN  /\ changes_log' = Append(changes_log,
                        [ISIN |-> isin,
                         Old_Symbol |-> isin_tracker[isin].last_seen_symbol,
                         New_Symbol |-> symbol,
                         Date_Detected |-> current_date])
                  /\ current_date = all_files[file_no].name.day
                  /\ isin_tracker'[isin].symbols =
                        isin_tracker[isin].symbols \cup {symbol}
                  /\ isin_tracker'[isin].last_seen_symbol = symbol ]_vars

\* two records of one identifier, the second found in a later file
C10_Witness ==
    /\ Len(changes_log) = 2
    /\ changes_log[1].ISIN = changes_log[2].ISIN
    /\ changes_log[1].Date_Detected < changes_log[2].Date_Detected
    /\ changes_log[2].Old_Symbol = changes_log[1].New_Symbol

\* the events logged for an identifier, in order
EventsOf(isin) == SelectSeq(changes_log, LAMBDA ev : ev.ISIN = isin)

\* the step handles an equity row that carries a tracked identifier with a
\* symbol that is already in the identifier's set
KnownSymbolRow ==
    /\ rows_read' = rows_read + 1
    /\ last_row'.series = "EQ"
    /\ last_row'.isin \in Tracked
    /\ last_row'.symbol # NaN
    /\ last_row'.symbol \in isin_tracker[last_row'.isin].symbols

\* C11: a step that handles an equity row carrying a tracked identifier with
\* a symbol already in the identifier's set (the current symbol or an earlier
\* one) appends no event and leaves every record, so also the identifier's
\* current symbol and set, unchanged.
C11_KnownSymbolIsSilent ==
    [][ KnownSymbolRow =>
           /\ changes_log' = changes_log
           /\ isin_tracker' = isin_tracker ]_vars

\* old, new, old: the identifier is back at its first symbol after one
\* rename, and exactly one event (old to new) is logged for it
C11_Witness ==
    \E isin \in Tracked :
        /\ Len(EventsOf(isin)) = 1
        /\ observed[isin] = EventsOf(isin)[1].Old_Symbol
        /\ isin_tracker[isin].last_seen_symbol = EventsOf(isin)[1].New_Symbol
        /\ last_row.series = "EQ"
        /\ last_row.isin = isin
        /\ last_row.symbol = EventsOf(isin)[1].Old_Symbol

\* the step handles a row of another series, or a row without identifier
IgnoredRow ==
    /\ rows_read' = rows_read + 1
    /\ \/ last_row'.series # "EQ"
       \/ last_row'.isin = NaN

\* C12: a step that handles a row whose series is not 'EQ', or whose
\* identifier is missing, creates no record, changes no record and appends
\* no event.
C12_IgnoredRowsChangeNothing ==
    [][ IgnoredRow =>
           /\ isin_tracker' = isin_tracker
           /\ changes_log' = changes_log ]_vars

\* a DEBT row has just been handled that carries a tracked identifier and a
\* symbol outside the identifier's set
C12_Witness ==
    /\ tpc = "rows"
    /\ last_row.series = "DEBT"
    /\ last_row.isin \in Tracked
    /\ last_row.symbol \notin isin_tracker[last_row.isin].symbols
    /\ changes_log = <<>>

\* the second call has ended
SecondEnded == run = 2 /\ tpc \in {"done", "raised"}

\* C13: a second call over the same unmodified files ends as the first one
\* did and returns the same records in the same order.
C13_SecondRunSameEvents ==
    SecondEnded =>
        /\ tpc = first.tpc
        /\ texc = first.texc
        /\ result = first.result

\* both calls returned, with two events or more
C13_Witness ==
    /\ SecondEnded
    /\ tpc = "done"
    /\ first.tpc = "done"
    /\ Len(result) >= 2
    /\ Len(first.result) >= 2

\* the date derived from the name of the file at position k of all_files
DateOf(k) == all_files[k].name.day

\* C14: the files are opened in the order of the dates derived from their
\* names, wherever they lie under the base folder, and the dates of the
\* logged events are non-decreasing.
C14_ChronologicalOrder ==
    /\ \A a, b \in 1..Len(all_files) :
          (a < b /\ b <= file_no /\ ~BadDate(all_files[a]) /\ ~BadDate(all_files[b]))
             => DateOf(a) <= DateOf(b)
    /\ \A a, b \in 1..Len(changes_log) :
          a < b => changes_log[a].Date_Detected <= changes_log[b].Date_Detected

\* the next file to open has a name without a parsable date
AtBadName ==
    /\ tpc = "file"
    /\ file_no \in 1..Len(all_files)
    /\ BadDate(all_files[file_no])

\* C19: a file whose name yields no date is passed over: the loop goes on
\* with the next file, no exception leaves the function, and no record and
\* no event changes.
C19_BadNameIsSkipped ==
    [][ AtBadName =>
           /\ tpc' = "file"
           /\ file_no' = file_no + 1
           /\ texc' = None
           /\ isin_tracker' = isin_tracker
           /\ changes_log' = changes_log ]_vars

\* the run of download_all is over
Over == pc \in {"done", "raised"}

\* C15: download_all hands the planner's chunks to download_bhav_zip one by
\* one, each once and in the planner's order, whatever became of the chunks
\* before: a failed chunk is followed by the pause and the next chunk, and
\* when the run is over every chunk has been fetched.
C15_EveryChunkFetchedOnce ==
    /\ fetched = [k \in 1..Len(fetched) |-> k]
    /\ Len(fetched) <= Len(chunks)
    /\ pc \in {"attempt", "fetched", "pace"} => Len(fetched) = i
    /\ pc = "chunk" => Len(fetched) = i - 1
    /\ Over => Len(fetched) = Len(chunks)

\* three chunks, the first two failed, the third one good, the run complete
C15_Witness ==
    /\ pc = "done"
    /\ fetched = <<1, 2, 3>>
    /\ stats.failed = 2
    /\ stats.successful = 1
    /\ seen # <<>>
    /\ seen[1].chunk = 3

\* the chunks download_all has counted
Processed == IF pc = "plan" THEN 0 ELSE IF pc = "pace" THEN i ELSE i - 1

\* the step counts a chunk
Counts == pc = "fetched" /\ pc' # "fetched"

\* C16: successful + failed is the number of chunks processed so far, each
\* chunk adds one to exactly one of the two counters, and when the run is
\* over the sum is the number of planned chunks.
C16_OneCountPerChunk ==
    /\ [](stats.successful + stats.failed = Processed)
    /\ [](Over => stats.successful + stats.failed = Len(chunks))
    /\ [][ IF Counts
           THEN \/ /\ stats'.successful = stats.successful + 1
                   /\ stats'.failed = stats.failed
                \/ /\ stats'.successful = stats.successful
                   /\ stats'.failed = stats.failed + 1
           ELSE /\ stats'.successful = stats.successful
                /\ stats'.failed = stats.failed ]_vars

\* three chunks counted, two good and one failed
C16_Witness ==
    /\ pc = "done"
    /\ Len(chunks) = 3
    /\ stats.successful = 2
    /\ stats.failed = 1

\* every row of the frame was read from a chunk that was counted successful
RowsFromGoodChunks(df) ==
    \A r \in DOMAIN df.rows :
        \E k \in DOMAIN seen :
            /\ SameRow(df, df.rows[r], seen[k])
            /\ seen[k].chunk \in 1..Len(chunks)

\* C17: a run in which no chunk is counted successful ends at the summary
\* with no consolidated output and failed = the number of chunks; when the
\* run is over an output has been written exactly when a chunk was counted
\* successful (and the write itself did not fail, which ends the run before
\* the summary), and its rows are rows of the chunks counted successful.
C17_OutputIffSuccess ==
    /\ (Over /\ stats.successful = 0) =>
           /\ pc = "done"
           /\ output = <<>>
           /\ stats.failed = Len(chunks)
    /\ Over => (output # <<>> <=> (stats.successful >= 1 /\ raised = None))
    /\ ~Over => output = <<>>
    /\ output # <<>> => RowsFromGoodChunks(output[1])

\* three chunks, all failed, the summary reached without output
C17_Witness ==
    /\ pc = "done"
    /\ Len(chunks) = 3
    /\ stats.failed = 3
    /\ stats.successful = 0
    /\ output = <<>>

\* the write of the fetched archive has just failed
ArchiveWriteFailed == log # <<>> /\ Last(log) = "archive_write_error"

\* the write of the consolidated output has failed
OutputWriteFailed == raised # None

\* C18 as claimed: a failed write of a fetched archive, or of the
\* consolidated output, aborts the run.
C18_StorageFailureIsFatal ==
    (ArchiveWriteFailed \/ OutputWriteFailed) => pc = "raised"

\* C18 amended: a failed write of the consolidated output aborts the run
\* (the exception leaves download_all, no output exists); a failed write of
\* a fetched archive does not: download_bhav_zip stops retrying and returns
\* no path, download_all counts the chunk as failed and goes on to the pause
\* and the chunks after it.
C18_OnlyOutputFailureIsFatal ==
    [][ /\ OutputWriteFailed' => (pc' = "raised" /\ output' = <<>>)
        /\ pc' = "raised" => OutputWriteFailed'
        /\ ArchiveWriteFailed =>
               /\ pc = "fetched"
               /\ zip_path = NoPath
               /\ stats'.failed = stats.failed + 1
               /\ stats'.successful = stats.successful
               /\ pc' = "pace"
               /\ raised' = None ]_vars

\* the write of the archive of the first of three chunks failed at the
\* second attempt: the call is over and two chunks are still to come
C18_Witness ==
    /\ ArchiveWriteFailed
    /\ Len(log) = 2
    /\ pc = "fetched"
    /\ i = 1
    /\ Len(chunks) = 3

\* the dataset after concatenation and deduplication, before the sort
PreSort == Deduplicated(Concat(all_dataframes))

\* the orders p of the rows of df under which df is out and is non-decreasing
\* in col (missing values last)
Orderings(out, df, col) ==
    { p \in Permutations(1..Len(df.rows)) :
        /\ out.rows = [k \in 1..Len(df.rows) |-> df.rows[p[k]]]
        /\ \A a, b \in 1..Len(df.rows) :
              a < b => Rank(Cell(df, df.rows[p[a]], col))
                         <= Rank(Cell(df, df.rows[p[b]], col)) }

\* rows with equal values in col keep their relative order under p
KeepsTies(df, col, p) ==
    \A a, b \in 1..Len(df.rows) :
        (a < b /\ Rank(Cell(df, df.rows[p[a]], col)) = Rank(Cell(df, df.rows[p[b]], col)))
           => p[a] < p[b]

\* an output was written from a dataset with a date-like column
SavedSorted == Saved /\ DateCols(PreSort) # <<>>

\* C20 as claimed: the output is the dataset sorted by its first date-like
\* column, non-decreasing, rows with equal values in the relative order
\* they had after concatenation and deduplication.
C20_StableSort ==
    SavedSorted =>
        /\ output[1].cols = PreSort.cols
        /\ \E p \in Orderings(output[1], PreSort, DateCols(PreSort)[1]) :
              KeepsTies(PreSort, DateCols(PreSort)[1], p)

\* C20 amended: the output holds the rows of the dataset, non-decreasing in
\* its first date-like column; nothing is promised about the relative order
\* of rows with equal values.
C20_SortedByFirstDateColumn ==
    SavedSorted =>
        /\ output[1].cols = PreSort.cols
        /\ Orderings(output[1], PreSort, DateCols(PreSort)[1]) # {}

\* an output in which two rows with equal dates have changed places
C20_Witness ==
    /\ SavedSorted
    /\ Orderings(output[1], PreSort, DateCols(PreSort)[1]) # {}
    /\ \A p \in Orderings(output[1], PreSort, DateCols(PreSort)[1]) :
          ~KeepsTies(PreSort, DateCols(PreSort)[1], p)

\* what the step adds to the files under zip_dir
NewFiles == written' \ written

\* the step is an attempt that met `kind`
AttemptMet(kind) == pc = "attempt" /\ log' = Append(log, kind)

\* C21: an attempt writes the debug artifact exactly when its response has
\* status 200 and is not an archive; the artifact's path is not the path of
\* the chunk's archive; that attempt returns no path and the loop goes to
\* its next iteration (or ends with no path after the last one); attempts
\* that meet another status, a redirect, an exception or an archive write no
\* debug artifact.
C21_DebugArtifactRule ==
    [][ /\ NewFiles # {} => pc = "attempt"
        /\ AttemptMet("not_archive") =>
               /\ DebugPath(chunks[i]) \in written'
               /\ NewFiles \subseteq {DebugPath(chunks[i])}
               /\ DebugPath(chunks[i]) # ZipPath(chunks[i])
               /\ zip_path' = NoPath
               /\ stats' = stats
               /\ attempt' = attempt + 1
               /\ pc' = IF attempt + 1 < max_retries THEN "attempt" ELSE "fetched"
        /\ AttemptMet("archive") => NewFiles \subseteq {ZipPath(chunks[i])}
        /\ (pc = "attempt" /\ ~AttemptMet("not_archive") /\ ~AttemptMet("archive"))
               => NewFiles = {} ]_vars

\* a debug artifact was written at the first attempt and the archive came
\* at the second: both files are there, under different paths
C21_Witness ==
    /\ pc = "fetched"
    /\ log = <<"not_archive", "archive">>
    /\ DebugPath(chunks[i]) \in written
    /\ ZipPath(chunks[i]) \in written
    /\ zip_path = ZipPath(chunks[i])

\* the pauses due so far: one after each processed chunk but the last
PausesDue ==
    IF chunks = <<>> \/ pc = "plan" THEN 0
    ELSE IF i > Len(chunks) THEN Len(chunks) - 1
    ELSE i - 1

\* C22: download_all sleeps once after each chunk but the last, whatever
\* became of the chunk: the pause comes when the chunk has been counted and
\* before the next chunk's first request, a run over n >= 1 chunks makes
\* n - 1 pauses, and the pauses are not the retry delays of the fetcher.
C22_PacingDelays ==
    /\ [](pace_delays = PausesDue)
    /\ []((Over /\ Len(chunks) >= 1) => pace_delays = Len(chunks) - 1)
    /\ [][ /\ pace_delays' # pace_delays =>
                  /\ pace_delays' = pace_delays + 1
                  /\ pc = "pace"
                  /\ i < Len(chunks)
                  /\ stats.successful + stats.failed = i
                  /\ requests = 0
                  /\ pc' = "chunk"
                  /\ i' = i + 1
                  /\ retry_delays' = retry_delays
           /\ retry_delays' > retry_delays => pace_delays' = pace_delays ]_vars

\* a run over three chunks, good and failed, is over after two pauses
C22_Witness ==
    /\ pc = "done"
    /\ Len(chunks) = 3
    /\ pace_delays = 2
    /\ stats.failed >= 1
    /\ stats.successful >= 1

\* the fetched archive is corrupt, or none of its members that parse as a
\* table has a row (so also when no member parses as a table)
Degenerate(arch) ==
    \/ ~arch.valid
    \/ \A k \in DOMAIN arch.entries :
          LET e == arch.entries[k]
          IN  (e.suffix \in {".csv", ".CSV", ".txt", ".xlsx", ".xls"} /\ e.parses)
                 => e.content.rows = <<>>

\* C23: a chunk whose fetched archive is corrupt, has no member that parses
\* as a table, or parses to zero rows, adds one to failed, nothing to
\* successful and no frame to all_dataframes.
C23_DegenerateArchiveIsFailed ==
    [][ (pc = "fetched" /\ zip_path # NoPath /\ Degenerate(archive)) =>
           /\ stats'.failed = stats.failed + 1
           /\ stats'.successful = stats.successful
           /\ all_dataframes' = all_dataframes
           /\ pc' = "pace" ]_vars

\* the archive of the first chunk was fetched, and the chunk counted failed
C23_Witness ==
    /\ pc = "pace"
    /\ i = 1
    /\ zip_path # NoPath
    /\ zip_path \in written
    /\ stats.failed = 1
    /\ stats.successful = 0
    /\ all_dataframes = <<>>

\* the step handles an equity row that carries an identifier
ObservedRow ==
    /\ rows_read' = rows_read + 1
    /\ last_row'.series = "EQ"
    /\ last_row'.symbol # NaN
    /\ last_row'.isin # NaN

\* C24: the first equity row of an identifier creates its record with
\* current symbol = the row's symbol, set = {symbol} and first_seen =
\* last_seen = the date of the file; every later equity row of the
\* identifier sets last_seen to the date of the file in progress and leaves
\* first_seen as it is.
C24_FirstAndLastSeen ==
    [][ ObservedRow =>
           LET isin == last_row'.isin
               rec == isin_tracker'[isin]
           IN  /\ isin \in DOMAIN isin_tracker'
               /\ "last_seen" \in DOMAIN rec
               /\ rec.last_seen = current_date
               /\ isin \notin Tracked =>
                      /\ rec.last_seen_symbol = last_row'.symbol
                      /\ rec.symbols = {last_row'.symbol}
                      /\ rec.first_seen = current_date
               /\ isin \in Tracked =>
                      rec.first_seen = isin_tracker[isin].first_seen ]_vars

\* C25: for each tracked identifier the number of events logged for it is
\* the size of its set of symbols minus one, its current symbol is in the
\* set, and no step removes an identifier or a symbol.
C25_EventsMatchLabelSet ==
    /\ [](\A isin \in Tracked :
            /\ Len(EventsOf(isin)) = Cardinality(isin_tracker[isin].symbols) - 1
            /\ isin_tracker[isin].last_seen_symbol \in isin_tracker[isin].symbols)
    /\ [][\A isin \in Tracked :
            /\ isin \in DOMAIN isin_tracker'
            /\ isin_tracker[isin].symbols \subseteq isin_tracker'[isin].symbols]_vars

\* an identifier with three symbols and two events
C25_Witness ==
    \E isin \in Tracked :
        /\ Cardinality(isin_tracker[isin].symbols) = 3
        /\ Len(EventsOf(isin)) = 2

\* the symbols that are the new symbol of an event of the identifier
NewSymbolsOf(isin) == {EventsOf(isin)[k].New_Symbol : k \in DOMAIN EventsOf(isin)}

\* C26: the events of an identifier form a chain: old # new in every
\* event; the first event's old symbol is the symbol the identifier was
\* first seen with (a record without event holds that symbol alone, and
\* the first event starts from it); the old symbol of every later event is
\* the new symbol of the identifier's event before; no symbol is the new
\* symbol of two events of the identifier.
C26_EventsFormAChain ==
    /\ [](\A isin \in Tracked :
            LET evs == EventsOf(isin) IN
            /\ \A k \in DOMAIN evs : evs[k].Old_Symbol # evs[k].New_Symbol
            /\ \A k \in DOMAIN evs :
                  k > 1 => evs[k].Old_Symbol = evs[k - 1].New_Symbol
            /\ \A j, k \in DOMAIN evs :
                  j < k => evs[j].New_Symbol # evs[k].New_Symbol
            /\ evs = <<>> =>
                  isin_tracker[isin].symbols = {isin_tracker[isin].last_seen_symbol}
            /\ evs # <<>> =>
                  /\ evs[1].Old_Symbol \in isin_tracker[isin].symbols
                  /\ evs[1].Old_Symbol \notin NewSymbolsOf(isin))
    /\ [][ /\ (ObservedRow /\ last_row'.isin \notin Tracked) =>
                  isin_tracker'[last_row'.isin].symbols = {last_row'.symbol}
           /\ \A isin \in Tracked :
                  (EventsOf(isin) = <<>> /\ changes_log' # changes_log
                     /\ changes_log'[Len(changes_log')].ISIN = isin)
                     => isin_tracker[isin].symbols =
                           {changes_log'[Len(changes_log')].Old_Symbol} ]_vars

\* a chain of two events over three different symbols
C26_Witness ==
    \E isin \in Tracked :
        /\ Len(EventsOf(isin)) = 2
        /\ EventsOf(isin)[2].Old_Symbol = EventsOf(isin)[1].New_Symbol
        /\ EventsOf(isin)[2].New_Symbol # EventsOf(isin)[1].Old_Symbol
        /\ EventsOf(isin)[1].Date_Detected = EventsOf(isin)[2].Date_Detected

====
